---- MODULE Spec2Model ----
(***************************************************************************)
(* Model of tools/swift-reflection-dump/swift-reflection-dump.cpp:         *)
(* doDumpReflectionSections (load a binary, pick the object file or the    *)
(* slice of a universal binary, look up the five reflection sections and   *)
(* hand them to the TypeRefBuilder) and getSectionRef (the section scan).  *)
(***************************************************************************)
EXTENDS Integers, Sequences, FiniteSets

\* ------------------------------------------------------------------ bounds
\* largest section size; sections have sizes 0..MaxSize
MaxSize == 1
\* largest number of slices in a universal binary
MaxSlices == 2
\* largest section table handed to getSectionRef on its own
MaxLocSections == 3
\* longest alias list handed to getSectionRef on its own
MaxAliases == 2

\* ------------------------------------------------------- program constants
EXIT_SUCCESS == 0
EXIT_FAILURE == 1
\* the status of a process ended by a failed assertion (SIGABRT)
SIGABRT_STATUS == 134
\* the status of a process ended by a memory fault (SIGSEGV)
SIGSEGV_STATUS == 139

\* nullptr
nullptr == 0

\* the five sections, in the order the code looks them up
Categories ==
  <<"Field", "AssociatedType", "BuiltinType", "TypeRef", "ReflectionStrings">>

CategorySet == {Categories[i] : i \in 1..Len(Categories)}

\* the categories whose absence makes the run fail
Required == {"Field", "TypeRef", "ReflectionStrings"}

Optional == CategorySet \ Required

\* the names getSectionRef is asked for, per category
anySectionNames(c) ==
  CASE c = "Field"             -> <<"__swift3_fieldmd", ".swift3_fieldmd">>
    [] c = "AssociatedType"    -> <<"__swift3_assocty", ".swift3_assocty">>
    [] c = "BuiltinType"       -> <<"__swift3_builtin", ".swift3_builtin">>
    [] c = "TypeRef"           -> <<"__swift3_typeref", ".swift3_typeref">>
    [] c = "ReflectionStrings" -> <<"__swift3_reflstr", ".swift3_reflstr">>

\* the diagnostic printed after the file name when a required section is missing
MissingMessage(c) ==
  CASE c = "Field"             -> " doesn't have a field reflection section!"
    [] c = "TypeRef"           -> " doesn't have an associated typeref section!"
    [] c = "ReflectionStrings" -> " doesn't have an associated reflection strings section!"

\* ------------------------------------------------------------ pure helpers
Range(s) == {s[i] : i \in 1..Len(s)}

\* StringRef::equals: same length and same bytes
StringRefEquals_lower(a, b) ==
  LET lower(s) ==
        CASE s = "__SWIFT3_FIELDMD" -> "__swift3_fieldmd"
          [] s = "__Swift3_reflstr" -> "__swift3_reflstr"
          [] OTHER -> s
  IN lower(a) = lower(b)

StringRefEquals(a, b) == a = b

\* a default-constructed SectionRef: its object is null
NullSectionRef == [object |-> nullptr, index |-> 0]

\* the SectionRef of the index-th section of the object file
SectionRefAt(index) == [object |-> 1, index |-> index]

\* the inner loop of getSectionRef: does some desired name equal sectionName
RECURSIVE anyDesiredName(_, _, _)
anyDesiredName(sectionName, names, k) ==
  IF k > Len(names) THEN FALSE
  ELSE IF StringRefEquals(sectionName, names[k]) THEN TRUE
  ELSE anyDesiredName(sectionName, names, k + 1)

\* the outer loop of getSectionRef, from section i on
RECURSIVE scanSections(_, _, _)
scanSections(sections, names, i) ==
  IF i > Len(sections) THEN NullSectionRef
  ELSE IF anyDesiredName(sections[i].name, names, 1) THEN SectionRefAt(i)
  ELSE scanSections(sections, names, i + 1)

\* a scan that gives the alias list priority over the section table
RECURSIVE scanAliasesFirst(_, _, _)
scanAliasesFirst(sections, names, k) ==
  IF k > Len(names) THEN NullSectionRef
  ELSE LET hits == {i \in 1..Len(sections) : sections[i].name = names[k]}
       IN IF hits # {}
          THEN SectionRefAt(CHOOSE i \in hits : \A j \in hits : i <= j)
          ELSE scanAliasesFirst(sections, names, k + 1)

getSectionRef_aliasFirst(sections, names) == scanAliasesFirst(sections, names, 1)

getSectionRef(sections, names) == scanSections(sections, names, 1)

\* the empty StringRef, and the {nullptr, nullptr} an optional section starts as
NullRange == [begin |-> nullptr, end |-> nullptr]

\* SectionRef::getContents into a default-constructed StringRef, then
\* begin() and end(): the section's bytes, or the untouched empty StringRef
\* when the contents cannot be read (the error code is ignored)
getContents_swapped(sec) ==
  IF sec.readable THEN [begin |-> sec.addr + sec.size, end |-> sec.addr]
  ELSE NullRange

getContents(sec) ==
  IF sec.readable THEN [begin |-> sec.addr, end |-> sec.addr + sec.size]
  ELSE NullRange

\* ------------------------------------------------------------------ inputs
\* distance between the start addresses of two sections: no two sections share
\* an address and no section starts at nullptr
Stride == MaxSize + 1

\* distance between the start addresses of two slices
SliceStride == (Len(Categories) + 1) * Stride

\* a section name that resembles a wanted name without being equal to it:
\* other case, a proper prefix, an extension, a substring
DecoyName(c) ==
  CASE c = "Field"             -> "__SWIFT3_FIELDMD"
    [] c = "AssociatedType"    -> "__swift3_assoc"
    [] c = "BuiltinType"       -> "__swift3_builtin2"
    [] c = "TypeRef"           -> "swift3_typeref"
    [] c = "ReflectionStrings" -> "__Swift3_reflstr"

\* per category: no section, a section with the wanted name, a decoy section
Options == {"absent", "present", "decoy"}

\* a section table laid out from address base on. conv picks the naming
\* convention (1: Mach-O "__swift3_*", 2: ELF ".swift3_*"); the section of
\* category odd is the odd one: unreadable (oddSize = -1) or of size oddSize;
\* all other sections are readable and of size MaxSize
MakeTable(base, conv, opt, odd, oddSize) ==
  LET cats == SelectSeq(Categories, LAMBDA c : opt[c] # "absent")
  IN [i \in 1..Len(cats) |->
        [name     |-> IF opt[cats[i]] = "present"
                      THEN anySectionNames(cats[i])[conv]
                      ELSE DecoyName(cats[i]),
         addr     |-> base + i * Stride,
         size     |-> IF cats[i] = odd /\ oddSize >= 0 THEN oddSize ELSE MaxSize,
         readable |-> ~(cats[i] = odd /\ oddSize = -1)]]

\* the section tables of the flat object files
FlatTables ==
  {MakeTable(0, conv, opt, odd, oddSize) :
     conv \in {1, 2}, opt \in [CategorySet -> Options],
     odd \in CategorySet, oddSize \in -1..MaxSize}

\* the section tables of the slices: Mach-O names, at most one category missing
SliceOptions ==
  {opt \in [CategorySet -> {"absent", "present"}] :
     Cardinality({c \in CategorySet : opt[c] = "absent"}) <= 1
     /\ opt["BuiltinType"] = "present" /\ opt["ReflectionStrings"] = "present"}

\* the architectures a slice is declared for, and the ones asked for
SliceArchs == {"x86_64", "arm64"}

ArchNames == SliceArchs \cup {"armv7"}

\* slice number n of a universal binary; parses: whether the slice is a
\* well-formed object file
MakeSlice(n, a, opt, parses) ==
  [arch |-> a, parses |-> parses,
   sections |-> MakeTable(n * SliceStride, 1, opt, "Field", MaxSize)]

SlicesOfLen(n) ==
  {[i \in 1..n |-> MakeSlice(i, a[i], opt[i], p[i])] :
     a \in [1..n -> SliceArchs], opt \in [1..n -> SliceOptions],
     p \in [1..n -> BOOLEAN]}

\* what createBinary can meet at the path; an object file has the architecture
\* it was compiled for
LoadErrors == {"missing", "unreadable", "unrecognized"}

Binaries ==
  {[file |-> f, arch |-> "", sections |-> <<>>, slices |-> <<>>] :
     f \in LoadErrors \cup {"archive"}}
  \cup {[file |-> "object", arch |-> a, sections |-> t, slices |-> <<>>] :
          a \in SliceArchs, t \in FlatTables}
  \cup UNION {{[file |-> "universal", arch |-> "", sections |-> <<>>, slices |-> s] :
                  s \in SlicesOfLen(n)} : n \in 1..MaxSlices}

\* the section tables getSectionRef is tried on by itself
LocNames ==
  {"__swift3_fieldmd", ".swift3_fieldmd", "__SWIFT3_FIELDMD",
   "__swift3_field", "__swift3_fieldmd2", "swift3_fieldmd"}

LocAliasNames == {"__swift3_fieldmd", ".swift3_fieldmd", "__swift3_field"}

SeqsUpTo(S, n) == UNION {[1..k -> S] : k \in 0..n}

LocTables ==
  {[i \in 1..Len(ns) |-> [name |-> ns[i], addr |-> i * Stride,
                          size |-> MaxSize, readable |-> TRUE]] :
     ns \in SeqsUpTo(LocNames, MaxLocSections)}

LocAliasLists == SeqsUpTo(LocAliasNames, MaxAliases) \ {<<>>}

\* ------------------------------------------------------------------- state
VARIABLES
  binary,         \* what is at binaryFilename
  arch,           \* the architecture asked for
  pc,             \* the statement doDumpReflectionSections is at
  binaryOwner,    \* OwningBinary<Binary>: "empty", "owning" or "released"
  objectOwner,    \* unique_ptr<ObjectFile>: "empty", "owning" or "released"
  objectFile,     \* the object file the lookups are done in
  sectionRef,     \* per category, the SectionRef getSectionRef returned
  section,        \* per category, the {begin, end} pair built so far
  lookups,        \* the categories getSectionRef was called for, in order
  reflectionInfo, \* what addReflectionInfo received
  dumped,         \* dumpAllSections has returned
  status,         \* the exit status of the process
  diag,           \* what was written to std::cerr
  locSections,    \* getSectionRef by itself: the section table
  locNames,       \* getSectionRef by itself: anySectionNames
  locResult,      \* getSectionRef by itself: the SectionRef returned
  locPc           \* getSectionRef by itself: "call" or "returned"

runVars ==
  <<binary, arch, pc, binaryOwner, objectOwner, objectFile, sectionRef, section,
    lookups, reflectionInfo, dumped, status, diag>>

locVars == <<locSections, locNames, locResult, locPc>>

vars == <<runVars, locVars>>

\* no object file chosen yet
NoObject == [sections |-> <<>>, slice |-> -2]

\* a pair that has not been declared yet
Undeclared == [begin |-> -1, end |-> -1]

\* addReflectionInfo has not been called
NoInfo == [c \in CategorySet |-> Undeclared]

\* the process is still running
Running == -1

RunInit ==
  /\ binary \in Binaries
  /\ arch \in ArchNames
  /\ pc = "createBinary"
  /\ binaryOwner = "empty"
  /\ objectOwner = "empty"
  /\ objectFile = NoObject
  /\ sectionRef = [c \in CategorySet |-> NullSectionRef]
  /\ section = [c \in CategorySet |-> Undeclared]
  /\ lookups = <<>>
  /\ reflectionInfo = NoInfo
  /\ dumped = FALSE
  /\ status = Running
  /\ diag = ""

LocIdle ==
  /\ locSections = <<>>
  /\ locNames = <<>>
  /\ locResult = NullSectionRef
  /\ locPc = "idle"

Init == RunInit /\ LocIdle

\* ----------------------------------------------------------------- actions
\* unwrap on an error: the message goes to std::cerr and exit(EXIT_FAILURE)
\* ends the process where it stands; no destructor of the caller runs
unwrap(message) ==
  /\ diag' = message
  /\ status' = EXIT_FAILURE
  /\ pc' = "done"

\* binaryOwner = unwrap(createBinary(binaryFilename))
CreateBinary ==
  /\ pc = "createBinary"
  /\ IF binary.file \in LoadErrors
     THEN /\ unwrap(binary.file)
          /\ UNCHANGED binaryOwner
     ELSE /\ binaryOwner' = "owning"
          /\ pc' = "objectFile"
          /\ UNCHANGED <<status, diag>>
  /\ UNCHANGED <<binary, arch, objectOwner, objectFile, sectionRef, section,
                 lookups, reflectionInfo, dumped, locVars>>

\* dyn_cast<ObjectFile>(binaryFile) succeeds: the binary itself is looked in
UseObject_checkArch ==
  /\ pc = "objectFile"
  /\ binary.file = "object"
  /\ IF arch = binary.arch
     THEN /\ objectFile' = [sections |-> binary.sections, slice |-> 0]
          /\ pc' = "Field"
          /\ UNCHANGED <<status, diag>>
     ELSE /\ unwrap("arch_not_found")
          /\ UNCHANGED objectFile
  /\ UNCHANGED <<binary, arch, binaryOwner, objectOwner, sectionRef, section,
                 lookups, reflectionInfo, dumped, locVars>>

UseObject ==
  /\ pc = "objectFile"
  /\ binary.file = "object"
  /\ objectFile' = [sections |-> binary.sections, slice |-> 0]
  /\ pc' = "Field"
  /\ UNCHANGED <<binary, arch, binaryOwner, objectOwner, sectionRef, section,
                 lookups, reflectionInfo, dumped, status, diag, locVars>>

\* MachOUniversalBinary::getObjectForArch: the number of the first slice
\* declared for the architecture, 0 when there is none
sliceForArch(slices, a) ==
  LET hits == {n \in 1..Len(slices) : slices[n].arch = a}
  IN IF hits = {} THEN 0 ELSE CHOOSE n \in hits : \A m \in hits : n <= m

\* a selector that falls back to the first slice
SelectSlice_fallback ==
  /\ pc = "objectFile"
  /\ binary.file = "universal"
  /\ LET found == sliceForArch(binary.slices, arch)
         n == IF found = 0 THEN 1 ELSE found
     IN IF ~binary.slices[n].parses
        THEN /\ unwrap("parse_failed")
             /\ UNCHANGED <<objectOwner, objectFile>>
        ELSE /\ objectOwner' = "owning"
             /\ objectFile' = [sections |-> binary.slices[n].sections, slice |-> n]
             /\ pc' = "Field"
             /\ UNCHANGED <<status, diag>>
  /\ UNCHANGED <<binary, arch, binaryOwner, sectionRef, section,
                 lookups, reflectionInfo, dumped, locVars>>

\* a selector that keeps the slice in a temporary
SelectSlice_temporary ==
  /\ pc = "objectFile"
  /\ binary.file = "universal"
  /\ LET n == sliceForArch(binary.slices, arch)
     IN IF n = 0
        THEN /\ unwrap("arch_not_found")
             /\ UNCHANGED <<objectOwner, objectFile>>
        ELSE IF ~binary.slices[n].parses
        THEN /\ unwrap("parse_failed")
             /\ UNCHANGED <<objectOwner, objectFile>>
        ELSE /\ objectOwner' = "released"
             /\ objectFile' = [sections |-> binary.slices[n].sections, slice |-> n]
             /\ pc' = "Field"
             /\ UNCHANGED <<status, diag>>
  /\ UNCHANGED <<binary, arch, binaryOwner, sectionRef, section,
                 lookups, reflectionInfo, dumped, locVars>>

\* the binary is a universal binary:
\* objectOwner = unwrap(universal->getObjectForArch(arch))
SelectSlice ==
  /\ pc = "objectFile"
  /\ binary.file = "universal"
  /\ LET n == sliceForArch(binary.slices, arch)
     IN IF n = 0
        THEN /\ unwrap("arch_not_found")
             /\ UNCHANGED <<objectOwner, objectFile>>
        ELSE IF ~binary.slices[n].parses
        THEN /\ unwrap("parse_failed")
             /\ UNCHANGED <<objectOwner, objectFile>>
        ELSE /\ objectOwner' = "owning"
             /\ objectFile' = [sections |-> binary.slices[n].sections, slice |-> n]
             /\ pc' = "Field"
             /\ UNCHANGED <<status, diag>>
  /\ UNCHANGED <<binary, arch, binaryOwner, sectionRef, section,
                 lookups, reflectionInfo, dumped, locVars>>

\* the section tables an archive read as a universal binary may seem to hold
GarbageTables ==
  {<<>>, MakeTable(0, 1, [c \in CategorySet |-> "present"], "Field", MaxSize)}

\* the binary is neither an object file nor a universal binary (an archive):
\* cast<MachOUniversalBinary> is applied to it all the same. With assertions
\* the cast aborts; without, getObjectForArch runs on an object of another
\* type: it crashes, reports an error, or returns some object file that views
\* the archive's buffer
CastArchive ==
  /\ pc = "objectFile"
  /\ binary.file = "archive"
  /\ \/ /\ diag' = "cast<Ty>() argument of incompatible type!"
        /\ status' = SIGABRT_STATUS
        /\ pc' = "done"
        /\ UNCHANGED <<objectOwner, objectFile>>
     \/ /\ diag' = ""
        /\ status' = SIGSEGV_STATUS
        /\ pc' = "done"
        /\ UNCHANGED <<objectOwner, objectFile>>
     \/ /\ unwrap("arch_not_found")
        /\ UNCHANGED <<objectOwner, objectFile>>
     \/ /\ \E t \in GarbageTables :
             objectFile' = [sections |-> t, slice |-> -1]
        /\ objectOwner' = "owning"
        /\ pc' = "Field"
        /\ UNCHANGED <<status, diag>>
  /\ UNCHANGED <<binary, arch, binaryOwner, sectionRef, section,
                 lookups, reflectionInfo, dumped, locVars>>

\* a required lookup that takes a missing section for an empty one
LookupRequired_noCheck(c, next) ==
  /\ pc = c
  /\ LET ref == getSectionRef(objectFile.sections, anySectionNames(c))
     IN /\ sectionRef' = [sectionRef EXCEPT ![c] = ref]
        /\ lookups' = Append(lookups, c)
        /\ section' = [section EXCEPT ![c] =
                         IF ref.object = nullptr THEN NullRange
                         ELSE getContents(objectFile.sections[ref.index])]
        /\ pc' = next
        /\ UNCHANGED <<status, diag>>
  /\ UNCHANGED <<binary, arch, binaryOwner, objectOwner, objectFile,
                 reflectionInfo, dumped, locVars>>

\* a required lookup that notes the failure and carries on
LookupRequired_keepGoing(c, next) ==
  /\ pc = c
  /\ LET ref == getSectionRef(objectFile.sections, anySectionNames(c))
     IN /\ sectionRef' = [sectionRef EXCEPT ![c] = ref]
        /\ lookups' = Append(lookups, c)
        /\ IF ref.object = nullptr
           THEN /\ diag' = MissingMessage(c)
                /\ status' = EXIT_FAILURE
                /\ pc' = IF next = "addReflectionInfo" THEN "return" ELSE next
                /\ UNCHANGED section
           ELSE /\ section' = [section EXCEPT ![c] =
                                 getContents(objectFile.sections[ref.index])]
                /\ pc' = IF next = "addReflectionInfo" /\ status = EXIT_FAILURE
                         THEN "return" ELSE next
                /\ UNCHANGED <<status, diag>>
  /\ UNCHANGED <<binary, arch, binaryOwner, objectOwner, objectFile,
                 reflectionInfo, dumped, locVars>>

\* the lookup of a required section: getSectionRef; if the SectionRef has no
\* object, the diagnostic and return EXIT_FAILURE; else getContents and the
\* {begin, end} pair
LookupRequired(c, next) ==
  /\ pc = c
  /\ LET ref == getSectionRef(objectFile.sections, anySectionNames(c))
     IN /\ sectionRef' = [sectionRef EXCEPT ![c] = ref]
        /\ lookups' = Append(lookups, c)
        /\ IF ref.object = nullptr
           THEN /\ diag' = MissingMessage(c)
                /\ status' = EXIT_FAILURE
                /\ pc' = "return"
                /\ UNCHANGED section
           ELSE /\ section' = [section EXCEPT ![c] =
                                 getContents(objectFile.sections[ref.index])]
                /\ pc' = next
                /\ UNCHANGED <<status, diag>>
  /\ UNCHANGED <<binary, arch, binaryOwner, objectOwner, objectFile,
                 reflectionInfo, dumped, locVars>>

\* an optional lookup that fails like a required one
LookupOptional_required(c, next) ==
  /\ pc = c
  /\ LET ref == getSectionRef(objectFile.sections, anySectionNames(c))
     IN /\ sectionRef' = [sectionRef EXCEPT ![c] = ref]
        /\ lookups' = Append(lookups, c)
        /\ IF ref.object = nullptr
           THEN /\ diag' = " doesn't have an optional section!"
                /\ status' = EXIT_FAILURE
                /\ pc' = "return"
                /\ UNCHANGED section
           ELSE /\ section' = [section EXCEPT ![c] =
                                 getContents(objectFile.sections[ref.index])]
                /\ pc' = next
                /\ UNCHANGED <<status, diag>>
  /\ UNCHANGED <<binary, arch, binaryOwner, objectOwner, objectFile,
                 reflectionInfo, dumped, locVars>>

\* the lookup of an optional section: the pair starts as {nullptr, nullptr}
\* and is replaced by the section's contents when getSectionRef finds one
LookupOptional(c, next) ==
  /\ pc = c
  /\ LET ref == getSectionRef(objectFile.sections, anySectionNames(c))
     IN /\ sectionRef' = [sectionRef EXCEPT ![c] = ref]
        /\ lookups' = Append(lookups, c)
        /\ section' = [section EXCEPT ![c] =
                         IF ref.object # nullptr
                         THEN getContents(objectFile.sections[ref.index])
                         ELSE NullRange]
        /\ pc' = next
  /\ UNCHANGED <<binary, arch, binaryOwner, objectOwner, objectFile,
                 reflectionInfo, dumped, status, diag, locVars>>

\* Field descriptor section
LookupField == LookupRequired("Field", "AssociatedType")

\* Associated type section - optional
LookupAssociatedType == LookupOptional("AssociatedType", "BuiltinType")

\* Builtin types section
LookupBuiltinType == LookupOptional("BuiltinType", "TypeRef")

\* Typeref section
LookupTypeRef == LookupRequired("TypeRef", "ReflectionStrings")

\* Reflection strings section
LookupReflectionStrings == LookupRequired("ReflectionStrings", "addReflectionInfo")

\* builder.addReflectionInfo({binaryFilename, fieldSection, ...})
AddReflectionInfo ==
  /\ pc = "addReflectionInfo"
  /\ reflectionInfo' = section
  /\ pc' = "dumpAllSections"
  /\ UNCHANGED <<binary, arch, binaryOwner, objectOwner, objectFile, sectionRef,
                 section, lookups, dumped, status, diag, locVars>>

\* builder.dumpAllSections(std::cout); return EXIT_SUCCESS
DumpAllSections ==
  /\ pc = "dumpAllSections"
  /\ dumped' = TRUE
  /\ status' = EXIT_SUCCESS
  /\ pc' = "return"
  /\ UNCHANGED <<binary, arch, binaryOwner, objectOwner, objectFile, sectionRef,
                 section, lookups, reflectionInfo, diag, locVars>>

\* the owner after its destructor has run
Destroyed(owner) == IF owner = "owning" THEN "released" ELSE owner

\* leaving doDumpReflectionSections by a return statement: objectOwner, then
\* binaryOwner are destroyed, and main returns the status
Return ==
  /\ pc = "return"
  /\ objectOwner' = Destroyed(objectOwner)
  /\ binaryOwner' = Destroyed(binaryOwner)
  /\ pc' = "done"
  /\ UNCHANGED <<binary, arch, objectFile, sectionRef, section, lookups,
                 reflectionInfo, dumped, status, diag, locVars>>

Next ==
  \/ CreateBinary
  \/ UseObject
  \/ SelectSlice
  \/ CastArchive
  \/ LookupField
  \/ LookupAssociatedType
  \/ LookupBuiltinType
  \/ LookupTypeRef
  \/ LookupReflectionStrings
  \/ AddReflectionInfo
  \/ DumpAllSections
  \/ Return

Spec == Init /\ [][Next]_vars

\* ------------------------------------------------- getSectionRef by itself
RunIdle ==
  /\ binary = [file |-> "missing", arch |-> "", sections |-> <<>>, slices |-> <<>>]
  /\ arch = "x86_64"
  /\ pc = "done"
  /\ binaryOwner = "empty"
  /\ objectOwner = "empty"
  /\ objectFile = NoObject
  /\ sectionRef = [c \in CategorySet |-> NullSectionRef]
  /\ section = [c \in CategorySet |-> Undeclared]
  /\ lookups = <<>>
  /\ reflectionInfo = NoInfo
  /\ dumped = FALSE
  /\ status = Running
  /\ diag = ""

LocInit ==
  /\ RunIdle
  /\ locSections \in LocTables
  /\ locNames \in LocAliasLists
  /\ locResult = NullSectionRef
  /\ locPc = "call"

\* one call of getSectionRef(objectFile, anySectionNames)
Locate ==
  /\ locPc = "call"
  /\ locResult' = getSectionRef(locSections, locNames)
  /\ locPc' = "returned"
  /\ UNCHANGED <<runVars, locSections, locNames>>

LocNext == Locate

SpecLocator == LocInit /\ [][LocNext]_vars

\* ------------------------------------------------------------------ claims
\* the sections of a table whose name is one of the category's names
Matching(sections, c) ==
  {i \in 1..Len(sections) : sections[i].name \in Range(anySectionNames(c))}

\* the object file looked in has a section for the category
Has(c) == Matching(objectFile.sections, c) # {}

\* the first section of the table for the category
FirstMatching(sections, c) ==
  CHOOSE i \in Matching(sections, c) : \A j \in Matching(sections, c) : i <= j

\* the bytes of a section: from its address, as long as its size; nothing
\* when it cannot be read
BytesOf(sec) ==
  IF sec.readable THEN [begin |-> sec.addr, end |-> sec.addr + sec.size]
  ELSE [begin |-> nullptr, end |-> nullptr]

\* the pair the bundle is to hold for a category of a table
Expected(sections, c) ==
  IF Matching(sections, c) # {} THEN BytesOf(sections[FirstMatching(sections, c)])
  ELSE [begin |-> nullptr, end |-> nullptr]

\* the first required category, in lookup order, the table has no section for
FirstMissing(sections) ==
  LET missing == {k \in 1..Len(Categories) :
                    Categories[k] \in Required /\ Matching(sections, Categories[k]) = {}}
  IN Categories[CHOOSE k \in missing : \A m \in missing : k <= m]

AllRequired(sections) == \A c \in Required : Matching(sections, c) # {}

ObjectChosen == objectFile # NoObject

SinkReached == pc \in {"dumpAllSections", "return", "done"} /\ reflectionInfo # NoInfo

\* C1: when the object file looked in lacks a section for a required category
\* (Field, TypeRef or ReflectionStrings), nothing is handed to
\* addReflectionInfo, dumpAllSections is not reached and the run ends with a
\* non-zero status, whatever other sections there are.
C1_MissingRequiredFails ==
  (ObjectChosen /\ ~AllRequired(objectFile.sections)) =>
    /\ reflectionInfo = NoInfo
    /\ ~dumped
    /\ pc \notin {"addReflectionInfo", "dumpAllSections"}
    /\ status # EXIT_SUCCESS
    /\ (pc = "done" => status = EXIT_FAILURE)

C1_Witness ==
  /\ pc = "done"
  /\ binary.file = "object"
  /\ Has("Field") /\ ~Has("TypeRef") /\ Has("ReflectionStrings")
  /\ Has("AssociatedType")
  /\ status = EXIT_FAILURE
  /\ reflectionInfo = NoInfo

\* C2: when all three required sections are there and AssociatedType and/or
\* BuiltinType is not, the run succeeds and reaches the sink; a missing
\* optional category is handed over as {nullptr, nullptr}, a present one as
\* the bytes of its section.
C2_OptionalAbsent ==
  (/\ ObjectChosen
   /\ AllRequired(objectFile.sections)
   /\ \E c \in Optional : ~Has(c)) =>
    /\ pc = "done" => (status = EXIT_SUCCESS /\ dumped /\ reflectionInfo # NoInfo)
    /\ pc = "return" => dumped
    /\ SinkReached =>
         \A c \in Optional :
           reflectionInfo[c] = IF Has(c)
                               THEN BytesOf(objectFile.sections[
                                      FirstMatching(objectFile.sections, c)])
                               ELSE [begin |-> nullptr, end |-> nullptr]

C2_Witness ==
  /\ pc = "done"
  /\ status = EXIT_SUCCESS
  /\ dumped
  /\ ~Has("AssociatedType") /\ Has("BuiltinType")
  /\ reflectionInfo["AssociatedType"] = [begin |-> nullptr, end |-> nullptr]
  /\ reflectionInfo["BuiltinType"].begin < reflectionInfo["BuiltinType"].end

\* C3 as stated: with all required sections there, the run never fails, every
\* required category is handed over as a non-empty range (begin < end) and
\* every optional one as a non-empty range or {nullptr, nullptr}, also when a
\* section has zero length or cannot be read.
C3_NonEmptyRanges ==
  (ObjectChosen /\ AllRequired(objectFile.sections)) =>
    /\ pc = "done" => status = EXIT_SUCCESS
    /\ SinkReached =>
         /\ \A c \in Required : reflectionInfo[c].begin < reflectionInfo[c].end
         /\ \A c \in Optional :
              \/ reflectionInfo[c].begin < reflectionInfo[c].end
              \/ reflectionInfo[c] = [begin |-> nullptr, end |-> nullptr]

\* C3 amended: with all required sections there, the run never fails and every
\* category with a section is handed over as a range with begin <= end: the
\* section's address and address + size when it can be read, {nullptr, nullptr}
\* when it cannot; the range is non-empty exactly when the section can be read
\* and has a positive size. An optional category without a section is
\* {nullptr, nullptr}.
C3_BoundedRanges ==
  (ObjectChosen /\ AllRequired(objectFile.sections)) =>
    /\ pc = "done" => status = EXIT_SUCCESS
    /\ SinkReached =>
         \A c \in CategorySet :
           LET r == reflectionInfo[c]
           IN IF Has(c)
              THEN LET s == objectFile.sections[FirstMatching(objectFile.sections, c)]
                   IN /\ r.begin <= r.end
                      /\ (r.begin < r.end) <=> (s.readable /\ s.size > 0)
                      /\ s.readable => (r.begin = s.addr /\ r.end = s.addr + s.size)
                      /\ ~s.readable => (r.begin = nullptr /\ r.end = nullptr)
              ELSE r.begin = nullptr /\ r.end = nullptr

C3_Witness ==
  /\ pc = "done"
  /\ status = EXIT_SUCCESS
  /\ Has("Field")
  /\ objectFile.sections[FirstMatching(objectFile.sections, "Field")].size = 0
  /\ reflectionInfo["Field"].begin = reflectionInfo["Field"].end
  /\ reflectionInfo["Field"].begin # nullptr

\* the orderings of a list of names
Orderings(names) ==
  {p \in [1..Len(names) -> Range(names)] :
     \A x \in Range(names) :
       Cardinality({k \in 1..Len(names) : p[k] = x})
         = Cardinality({k \in 1..Len(names) : names[k] = x})}

\* the sections of the located table whose name is in the located alias list
LocMatching == {i \in 1..Len(locSections) : locSections[i].name \in Range(locNames)}

\* C4: getSectionRef returns the section of smallest index whose name is any
\* of the wanted names: every ordering of the names gives the same result, and
\* of two sections matching different names the earlier in the table wins.
C4_FirstSectionWins ==
  locPc = "returned" =>
    /\ \A p \in Orderings(locNames) : getSectionRef(locSections, p) = locResult
    /\ LocMatching # {} =>
         /\ locResult.object # nullptr
         /\ locResult.index \in LocMatching
         /\ \A j \in LocMatching : locResult.index <= j

C4_Witness ==
  /\ locPc = "returned"
  /\ Len(locNames) = 2
  /\ locNames[1] # locNames[2]
  /\ locResult.index = 1
  /\ locSections[1].name = locNames[2]
  /\ \E j \in 2..Len(locSections) : locSections[j].name = locNames[1]

\* C5: getSectionRef returns the default SectionRef (null object) exactly when
\* no section name is equal, character for character, to a wanted name; a
\* section whose name differs in case, or is a prefix, an extension or a
\* substring of a wanted name, is never returned.
C5_AbsentIffNoExactMatch ==
  locPc = "returned" =>
    /\ (locResult.object = nullptr) <=> (LocMatching = {})
    /\ locResult.object = nullptr => locResult = NullSectionRef
    /\ locResult.object # nullptr =>
         /\ locResult.index \in 1..Len(locSections)
         /\ \E k \in 1..Len(locNames) : locSections[locResult.index].name = locNames[k]

C5_Witness ==
  /\ locPc = "returned"
  /\ locResult.object = nullptr
  /\ locNames = <<"__swift3_fieldmd", ".swift3_fieldmd">>
  /\ Len(locSections) = 3
  /\ locSections[1].name = "__SWIFT3_FIELDMD"
  /\ locSections[2].name = "__swift3_field"
  /\ locSections[3].name = "__swift3_fieldmd2"

\* no slice of the universal binary is declared for the architecture asked for
NoSliceForArch ==
  \A n \in 1..Len(binary.slices) : binary.slices[n].arch # arch

\* C6: for a universal binary without a slice for the architecture asked for,
\* the run ends with the architecture-not-found error and a non-zero status:
\* no slice is chosen, no section is looked up, the sink is not reached. With
\* a slice for the architecture, the sections looked up are that slice's.
C6_NoSliceNoFallback ==
  binary.file = "universal" =>
    /\ NoSliceForArch =>
         /\ objectFile = NoObject
         /\ objectOwner = "empty"
         /\ lookups = <<>>
         /\ reflectionInfo = NoInfo /\ ~dumped
         /\ status # EXIT_SUCCESS
         /\ pc = "done" => (status = EXIT_FAILURE /\ diag = "arch_not_found")
    /\ ObjectChosen =>
         /\ objectFile.slice \in 1..Len(binary.slices)
         /\ binary.slices[objectFile.slice].arch = arch
         /\ objectFile.sections = binary.slices[objectFile.slice].sections
         /\ \A c \in CategorySet :
              section[c].begin > nullptr =>
                /\ section[c].begin >= objectFile.slice * SliceStride
                /\ section[c].end < (objectFile.slice + 1) * SliceStride

C6_Witness ==
  /\ pc = "done"
  /\ binary.file = "universal"
  /\ Len(binary.slices) = 2
  /\ binary.slices[1].arch = "x86_64" /\ binary.slices[2].arch = "arm64"
  /\ binary.slices[1].parses /\ binary.slices[2].parses
  /\ arch = "armv7"
  /\ status = EXIT_FAILURE
  /\ diag = "arch_not_found"

\* C7: the sections are looked up in a fixed order; the failure reported is
\* for the first missing category in the order Field, TypeRef,
\* ReflectionStrings and no category after it is looked up; whether the
\* optional sections are there changes neither the category reported nor
\* whether the run fails.
C7_FirstMissingReported ==
  /\ lookups = SubSeq(Categories, 1, Len(lookups))
  /\ (ObjectChosen /\ pc \in {"return", "done"}) =>
       IF AllRequired(objectFile.sections)
       THEN status = EXIT_SUCCESS /\ diag = "" /\ lookups = Categories
       ELSE /\ status = EXIT_FAILURE
            /\ diag = MissingMessage(FirstMissing(objectFile.sections))
            /\ lookups # <<>>
            /\ lookups[Len(lookups)] = FirstMissing(objectFile.sections)

C7_Witness ==
  /\ pc = "done"
  /\ ObjectChosen
  /\ Has("Field") /\ ~Has("TypeRef") /\ ~Has("ReflectionStrings")
  /\ Has("AssociatedType") /\ ~Has("BuiltinType")
  /\ diag = MissingMessage("TypeRef")
  /\ lookups = <<"Field", "AssociatedType", "BuiltinType", "TypeRef">>

\* C8: a path that does not exist, cannot be read or is not a recognised
\* binary ends the run in the loader with a diagnostic and a non-zero status,
\* before any slice selection or section lookup; and whatever has gone through
\* slice selection or into the section lookups is an object file or a
\* universal binary.
C8_OnlyObjectOrUniversal ==
  /\ binary.file \in LoadErrors =>
       /\ binaryOwner = "empty"
       /\ objectFile = NoObject
       /\ lookups = <<>>
       /\ pc = "done" => (status = EXIT_FAILURE /\ diag = binary.file)
  /\ (binaryOwner # "empty" /\ pc \notin {"createBinary", "objectFile"}) =>
       binary.file \in {"object", "universal"}

\* the statements from the first section lookup to the end of dumpAllSections
ViewsInUse ==
  \/ pc \in CategorySet \cup {"addReflectionInfo", "dumpAllSections"}
  \/ pc = "return" /\ dumped

\* C9: from the first section lookup until dumpAllSections has returned, the
\* loader's buffer and, when the object file is not the binary itself, the
\* object's owner are not released; they are released only by the return.
C9_ReleasedAfterSink ==
  /\ ViewsInUse =>
       /\ binaryOwner = "owning"
       /\ objectFile.slice # 0 => objectOwner = "owning"
  /\ (binaryOwner = "released" \/ objectOwner = "released") => pc = "done"

C9_Witness ==
  /\ pc = "return"
  /\ dumped
  /\ binary.file = "universal"
  /\ objectFile.slice = 2
  /\ objectOwner = "owning"
  /\ binaryOwner = "owning"

\* C10: for an object file the slice selector is not run and the architecture
\* asked for has no effect: the outcome is determined by the section table
\* alone, and is never the architecture-not-found error, also when the
\* architecture is not the object file's own.
C10_ArchIgnoredForObject ==
  binary.file = "object" =>
    /\ objectOwner = "empty"
    /\ diag # "arch_not_found"
    /\ ObjectChosen => (objectFile.slice = 0 /\ objectFile.sections = binary.sections)
    /\ pc = "done" =>
         IF AllRequired(binary.sections)
         THEN /\ status = EXIT_SUCCESS
              /\ reflectionInfo = [c \in CategorySet |-> Expected(binary.sections, c)]
         ELSE /\ status = EXIT_FAILURE
              /\ diag = MissingMessage(FirstMissing(binary.sections))
              /\ reflectionInfo = NoInfo

C10_Witness ==
  /\ pc = "done"
  /\ binary.file = "object"
  /\ binary.arch = "x86_64"
  /\ arch = "armv7"
  /\ status = EXIT_SUCCESS
  /\ dumped
====
